---- MODULE Spec2Model ----
(***************************************************************************)
(* A model of csv_validator.py: the path validator, the encoding check,    *)
(* the row/column format check, the report formatter, the report writer    *)
(* and the driver main, which runs them in sequence.                       *)
(*                                                                         *)
(* Text is a sequence of tokens: Tok(s) is a piece of literal text, Num(n) *)
(* a formatted integer and NL a line break, so that string concatenation   *)
(* is \o, str.strip() removes the line breaks at both ends, and the number *)
(* of lines printed is the number of NL tokens.                            *)
(*                                                                         *)
(* The csv reader, the encoding detector, the dataframe library and the    *)
(* table renderer are libraries: the model takes what they deliver as an   *)
(* input.  A file is the rows the csv reader yields (each row a sequence   *)
(* of fields) and the way the iteration ends: normally ("none"), with a    *)
(* csv.Error ("csv") or with any other exception ("io") raised after the   *)
(* rows that were yielded.  No rows and "io" is also a failing open().     *)
(***************************************************************************)
EXTENDS Integers, Sequences, FiniteSets, TLC

VARIABLES pc, path, file, detected, encoding_check, format_check, results,
          report, report_path, report_file, stdout, stderr, exit_code,
          calls, opened, raised, exit_via

vars == <<pc, path, file, detected, encoding_check, format_check, results,
          report, report_path, report_file, stdout, stderr, exit_code,
          calls, opened, raised, exit_via>>

\* ------------------------------------------------------------------ bounds
MaxRows == 3
MaxFields == 2

\* -------------------------------------------------------------------- text
Tok(s) == [text |-> s, args |-> <<>>]
Num(n) == [text |-> "%d", args |-> <<n>>]
NL == Tok("\n")
Str(s) == <<Tok(s)>>

\* str.lower() on the names the program applies it to
Lower(s) ==
  CASE s = ".CSV" -> ".csv"
    [] s = ".Csv" -> ".csv"
    [] s = ".TXT" -> ".txt"
    [] s = "UTF-8" -> "utf-8"
    [] s = "Utf-8" -> "utf-8"
    [] s = "UTF-8-SIG" -> "utf-8-sig"
    [] s = "ISO-8859-1" -> "iso-8859-1"
    [] OTHER -> s

RECURSIVE LStrip(_)
LStrip(s) == IF s # <<>> /\ Head(s) = NL THEN LStrip(Tail(s)) ELSE s

RECURSIVE RStrip(_)
RStrip(s) ==
  IF s # <<>> /\ s[Len(s)] = NL THEN RStrip(SubSeq(s, 1, Len(s) - 1)) ELSE s

strip_unchanged(s) == s
\* error_msg.strip()
strip(s) == RStrip(LStrip(s))

RECURSIVE JoinWith(_, _)
\* sep.join(parts)
JoinWith(sep, parts) ==
  IF parts = <<>> THEN <<>>
  ELSE IF Len(parts) = 1 THEN parts[1]
  ELSE parts[1] \o sep \o JoinWith(sep, Tail(parts))

\* the number of lines of a printed text
RECURSIVE LineCount(_)
LineCount(s) ==
  IF s = <<>> THEN 0
  ELSE (IF Head(s) = NL THEN 1 ELSE 0) + LineCount(Tail(s))

Contains(s, t) == \E k \in 1..Len(s) : s[k] = t

\* print(x, file=stream)
print_to(stream, x) == stream \o x \o <<NL>>

\* ------------------------------------------------------------------ inputs
Suffixes == {".csv", ".CSV", ".Csv", ".txt", ".TXT", ""}
Paths == [exists : BOOLEAN, suffix : Suffixes]

Row(n) == [i \in 1..n |-> "x"]
Rows == {Row(n) : n \in 0..MaxFields}
RowSeqs == UNION {[1..n -> Rows] : n \in 0..MaxRows}
Faults == {"none", "csv", "io"}
Files == [rows : RowSeqs, fault : Faults]
AbsentFile == [rows |-> <<>>, fault |-> "io"]
EmptyFile == [rows |-> <<>>, fault |-> "none"]

\* what chardet.detect reports, or how the sampling fails
EncodingNames == {"utf-8", "UTF-8", "Utf-8", "UTF-8-SIG", "ascii", "ISO-8859-1"}
Detections == EncodingNames \cup {"None", "detect raises", "unreadable"}

\* ------------------------------------------------------ validate_file_path
validate_file_path_no_lower(p) ==
  IF ~p.exists
  THEN [exc |-> "FileNotFoundError",
        msg |-> <<Tok("The file "), Tok("<file_path>"), Tok(" does not exist")>>]
  ELSE IF p.suffix # ".csv"
  THEN [exc |-> "ValueError",
        msg |-> <<Tok("The file "), Tok("<file_path>"), Tok(" is not a CSV file")>>]
  ELSE [exc |-> "none", msg |-> <<>>]

validate_file_path(p) ==
  IF ~p.exists
  THEN [exc |-> "FileNotFoundError",
        msg |-> <<Tok("The file "), Tok("<file_path>"), Tok(" does not exist")>>]
  ELSE IF Lower(p.suffix) # ".csv"
  THEN [exc |-> "ValueError",
        msg |-> <<Tok("The file "), Tok("<file_path>"), Tok(" is not a CSV file")>>]
  ELSE [exc |-> "none", msg |-> <<>>]

\* ----------------------------------------------------- check_file_encoding
check_file_encoding_no_lower(d) ==
  IF d = "unreadable"
  THEN [ok |-> FALSE, msg |-> <<Tok("Error checking file encoding: "), Tok("<open error>")>>]
  ELSE IF d = "detect raises"
  THEN [ok |-> FALSE, msg |-> <<Tok("Error checking file encoding: "), Tok("<detect error>")>>]
  ELSE IF d = "None"
  THEN [ok |-> FALSE, msg |-> <<Tok("Error checking file encoding: "),
                                Tok("'NoneType' object has no attribute 'lower'")>>]
  ELSE IF d = "utf-8"
  THEN [ok |-> TRUE, msg |-> Str("File is UTF-8 encoded")]
  ELSE [ok |-> FALSE, msg |-> <<Tok("File is "), Tok(d), Tok(" encoded, not UTF-8")>>]

check_file_encoding(d) ==
  IF d = "unreadable"
  THEN [ok |-> FALSE, msg |-> <<Tok("Error checking file encoding: "), Tok("<open error>")>>]
  ELSE IF d = "detect raises"
  THEN [ok |-> FALSE, msg |-> <<Tok("Error checking file encoding: "), Tok("<detect error>")>>]
  ELSE IF d = "None"
  THEN [ok |-> FALSE, msg |-> <<Tok("Error checking file encoding: "),
                                Tok("'NoneType' object has no attribute 'lower'")>>]
  ELSE IF Lower(d) = "utf-8"
  THEN [ok |-> TRUE, msg |-> Str("File is UTF-8 encoded")]
  ELSE [ok |-> FALSE, msg |-> <<Tok("File is "), Tok(d), Tok(" encoded, not UTF-8")>>]

\* -------------------------------------------------------- check_csv_format
NewDetails == [header_columns |-> 0, data_columns |-> <<>>, mismatched_rows |-> <<>>]
NoFormatCheck == [is_valid |-> FALSE, message |-> <<>>, details |-> NewDetails]

FirstDataRowNumber_from_1 == 2 - 1
\* enumerate(reader, start=2)
FirstDataRowNumber == 2

IsMismatch_fewer_only(row, header) == Len(row) < Len(header)
\* len(row) != len(header)
IsMismatch(row, header) == Len(row) # Len(header)

RECURSIVE ScanRows(_, _, _, _)
\* the for loop: k is the position in the rows after the header, i the row number
ScanRows(rows, header, k, details) ==
  IF k > Len(rows) - 1 THEN details
  ELSE
    LET row == rows[k + 1]
        i == FirstDataRowNumber + (k - 1)
        d1 == [details EXCEPT !.data_columns = Append(@, Len(row))]
        d2 == IF IsMismatch(row, header)
              THEN [d1 EXCEPT !.mismatched_rows =
                      Append(@, [row_number |-> i,
                                 expected_columns |-> Len(header),
                                 actual_columns |-> Len(row)])]
              ELSE d1
    IN ScanRows(rows, header, k + 1, d2)

RECURSIVE MismatchLines(_)
MismatchLines(ms) ==
  IF ms = <<>> THEN <<>>
  ELSE <<Tok("Row "), Num(ms[1].row_number), Tok(": Expected "),
         Num(ms[1].expected_columns), Tok(" columns, found "),
         Num(ms[1].actual_columns), NL>> \o MismatchLines(Tail(ms))

Finish_always_valid(details) ==
  [is_valid |-> TRUE, message |-> Str("CSV format is valid"), details |-> details]

\* after the loop: the mismatch message, or the valid result
Finish(details) ==
  IF details.mismatched_rows # <<>>
  THEN [is_valid |-> FALSE,
        message |-> strip(<<Tok("Column count mismatch found in the following rows:"), NL>>
                          \o MismatchLines(details.mismatched_rows)),
        details |-> details]
  ELSE [is_valid |-> TRUE, message |-> Str("CSV format is valid"), details |-> details]

OnFault_one_prefix(fault, rows, details) ==
  [is_valid |-> FALSE,
   message |-> <<Tok("Error reading CSV: "), Tok("<diagnostic>")>>,
   details |-> details]

\* the two except clauses; an empty file makes next(reader) raise StopIteration,
\* whose str() is empty
OnFault(fault, rows, details) ==
  IF fault = "csv"
  THEN [is_valid |-> FALSE,
        message |-> <<Tok("CSV format error: "), Tok("<diagnostic>")>>,
        details |-> details]
  ELSE [is_valid |-> FALSE,
        message |-> <<Tok("Error reading CSV: "),
                      IF fault = "none" THEN Tok("") ELSE Tok("<diagnostic>")>>,
        details |-> details]

check_csv_format(f) ==
  IF f.rows = <<>> THEN OnFault(f.fault, f.rows, NewDetails)
  ELSE
    LET header == f.rows[1] IN
    IF header = <<>>
    THEN [is_valid |-> FALSE, message |-> Str("Empty CSV file"), details |-> NewDetails]
    ELSE
      LET details == ScanRows(f.rows, header, 1,
                              [NewDetails EXCEPT !.header_columns = Len(header)])
      IN IF f.fault # "none" THEN OnFault(f.fault, f.rows, details)
         ELSE Finish(details)

\* ----------------------------------------------------------- format_report
RECURSIVE SortedSeq(_)
SortedSeq(S) ==
  IF S = {} THEN <<>>
  ELSE LET m == CHOOSE x \in S : \A y \in S : x <= y
       IN <<m>> \o SortedSeq(S \ {m})

RECURSIVE NumStrs(_)
NumStrs(ns) == IF ns = <<>> THEN <<>> ELSE <<<<Num(ns[1])>>>> \o NumStrs(Tail(ns))

AlignmentBlock(details) ==
  IF details.header_columns > 0
  THEN << <<NL, Tok("Column Alignment Details")>>,
          Str("--------------------"),
          <<Tok("Header columns: "), Num(details.header_columns)>> >>
       \o (IF details.data_columns # <<>>
           THEN LET unique_column_counts ==
                      {details.data_columns[k] : k \in 1..Len(details.data_columns)}
                IN IF Cardinality(unique_column_counts) > 1
                   THEN << Str("Warning: Multiple column counts found in data rows"),
                           <<Tok("Column counts found: ")>>
                             \o JoinWith(Str(", "), NumStrs(SortedSeq(unique_column_counts))) >>
                   ELSE << <<Tok("All data rows have "), Num(details.data_columns[1]),
                             Tok(" columns")>> >>
           ELSE <<>>)
  ELSE <<>>

format_report(res, fc) ==
  JoinWith(<<NL>>,
    << Str("CSV Format Validation"),
       Str("===================="),
       <<Tok("Status: "), IF fc.is_valid THEN Tok("Valid") ELSE Tok("Invalid")>>,
       <<Tok("Details: ")>> \o fc.message >>
    \o AlignmentBlock(fc.details)
    \o << <<>>,
          Str("Basic Statistics"),
          Str("===================="),
          <<Tok("Total Rows: "), Tok("<total_rows>")>>,
          <<Tok("Total Columns: "), Tok("<total_columns>")>>,
          <<Tok("Duplicate Rows: "), Tok("<duplicate_rows>")>>,
          <<>>,
          Str("Null Value Analysis"),
          Str("===================="),
          Str("<null table>"),
          <<>>,
          Str("Column Statistics"),
          Str("===================="),
          Str("<stats table>") >>)

\* ---------------------------------------------------- write_report_to_file
ReportName == <<Tok("<stem>"), Tok("_validation_report_"), Tok("<timestamp>"), Tok(".txt")>>
WriteOutcomes == {"ok", "open fails", "write fails"}

write_report_to_file_path_anyway(rep, outcome) ==
  [path |-> ReportName,
   file |-> IF outcome = "ok" THEN rep ELSE <<>>,
   created |-> outcome # "open fails",
   warning |-> IF outcome = "ok" THEN <<>>
               ELSE <<Tok("Warning: Could not write report to file: "), Tok("<os error>")>>]

\* path <<>> is None
write_report_to_file(rep, outcome) ==
  IF outcome = "ok"
  THEN [path |-> ReportName, file |-> rep, created |-> TRUE, warning |-> <<>>]
  ELSE [path |-> <<>>, file |-> <<>>, created |-> outcome = "write fails",
        warning |-> <<Tok("Warning: Could not write report to file: "), Tok("<os error>")>>]

\* -------------------------------------------------------------------- main
NoReportFile == [created |-> FALSE, content |-> <<>>]
NoEncodingCheck == [ok |-> FALSE, msg |-> <<>>]
NoRaise == [step |-> "none", exc |-> "none"]
StdoutFaults == {"ok", "ValueError", "Exception"}
Order == <<"validate_file_path", "check_file_encoding", "check_csv_format",
           "analyze_csv", "format_report", "print", "write_report_to_file",
           "print written">>

\* the except clauses of main: which one catches, and what it prints
HandlerPrefix(exc) ==
  IF exc \in {"FileNotFoundError", "ValueError"}
  THEN Tok("Error: ") ELSE Tok("Unexpected error: ")

HandlerLine(exc) == IF exc \in {"FileNotFoundError", "ValueError"} THEN "except 268" ELSE "except 271"

Raise(step, exc, msg) ==
  /\ raised' = [step |-> step, exc |-> exc]
  /\ stderr' = print_to(stderr, <<HandlerPrefix(exc)>> \o msg)
  /\ exit_code' = 1
  /\ exit_via' = HandlerLine(exc)
  /\ pc' = "exit"

\* print(f"Error: {msg}", file=sys.stderr); sys.exit(1): SystemExit passes both handlers
ErrorExit(msg, via) ==
  /\ stderr' = print_to(stderr, <<Tok("Error: ")>> \o msg)
  /\ exit_code' = 1
  /\ exit_via' = via
  /\ pc' = "exit"
  /\ UNCHANGED raised

FormatGate_always(fc) == TRUE
\* if format_check[0]:
FormatGate(fc) == fc.is_valid

\* chardet reports no encoding for an empty sample
CanDetect(f, d) == f = EmptyFile => d \in {"None", "detect raises", "unreadable"}

Main_ValidatePath ==
  /\ pc = "validate"
  /\ calls' = Append(calls, "validate_file_path")
  /\ LET r == validate_file_path(path) IN
       IF r.exc # "none"
       THEN Raise("validate_file_path", r.exc, r.msg)
       ELSE pc' = "encoding" /\ UNCHANGED <<raised, stderr, exit_code, exit_via>>
  /\ UNCHANGED <<path, file, detected, encoding_check, format_check, results, report,
                 report_path, report_file, stdout, opened>>

Main_CheckEncoding ==
  /\ pc = "encoding"
  /\ calls' = Append(calls, "check_file_encoding")
  /\ opened' = TRUE
  /\ \E d \in Detections :
       /\ CanDetect(file, d)
       /\ detected' = d
       /\ encoding_check' = check_file_encoding(d)
       /\ IF ~check_file_encoding(d).ok
          THEN ErrorExit(check_file_encoding(d).msg, "sys.exit 249")
          ELSE pc' = "format" /\ UNCHANGED <<raised, stderr, exit_code, exit_via>>
  /\ UNCHANGED <<path, file, format_check, results, report, report_path, report_file,
                 stdout>>

Main_CheckFormat ==
  /\ pc = "format"
  /\ calls' = Append(calls, "check_csv_format")
  /\ format_check' = check_csv_format(file)
  /\ IF FormatGate(check_csv_format(file))
     THEN pc' = "analyze" /\ UNCHANGED <<raised, stderr, exit_code, exit_via>>
     ELSE ErrorExit(check_csv_format(file).message, "sys.exit 266")
  /\ UNCHANGED <<path, file, detected, encoding_check, results, report, report_path,
                 report_file, stdout, opened>>

\* pd.read_csv and the statistics are the library's; its parse errors are ValueErrors
Main_Analyze ==
  /\ pc = "analyze"
  /\ calls' = Append(calls, "analyze_csv")
  /\ \E o \in {"ok", "ValueError", "Exception"} :
       IF o = "ok"
       THEN /\ results' = "results"
            /\ pc' = "report"
            /\ UNCHANGED <<raised, stderr, exit_code, exit_via>>
       ELSE /\ Raise("analyze_csv", o, Str("<diagnostic>"))
            /\ UNCHANGED results
  /\ UNCHANGED <<path, file, detected, encoding_check, format_check, report, report_path,
                 report_file, stdout, opened>>

Main_FormatReport ==
  /\ pc = "report"
  /\ calls' = Append(calls, "format_report")
  /\ \E o \in {"ok", "Exception"} :
       IF o = "ok"
       THEN /\ report' = format_report(results, format_check)
            /\ pc' = "print"
            /\ UNCHANGED <<raised, stderr, exit_code, exit_via>>
       ELSE /\ Raise("format_report", o, Str("<diagnostic>"))
            /\ UNCHANGED report
  /\ UNCHANGED <<path, file, detected, encoding_check, format_check, results, report_path,
                 report_file, stdout, opened>>

\* print(report): an encoding error of the stream is a ValueError, a failing write an OSError
Main_PrintReport ==
  /\ pc = "print"
  /\ calls' = Append(calls, "print")
  /\ \E o \in StdoutFaults :
       IF o = "ok"
       THEN /\ stdout' = print_to(stdout, report)
            /\ pc' = "write"
            /\ UNCHANGED <<raised, stderr, exit_code, exit_via>>
       ELSE /\ Raise("print", o, Str("<diagnostic>"))
            /\ UNCHANGED stdout
  /\ UNCHANGED <<path, file, detected, encoding_check, format_check, results, report,
                 report_path, report_file, opened>>

Main_WriteReport ==
  /\ pc = "write"
  /\ calls' = Append(calls, "write_report_to_file")
  /\ \E o \in WriteOutcomes :
       LET w == write_report_to_file(report, o) IN
         /\ report_path' = w.path
         /\ report_file' = [created |-> w.created, content |-> w.file]
         /\ stderr' = IF w.warning # <<>> THEN print_to(stderr, w.warning) ELSE stderr
         /\ IF w.path # <<>>
            THEN pc' = "written" /\ UNCHANGED <<exit_code, exit_via>>
            ELSE pc' = "exit" /\ exit_code' = 0 /\ exit_via' = "return"
  /\ UNCHANGED <<path, file, detected, encoding_check, format_check, results, report,
                 stdout, opened, raised>>

\* print(f"\nReport has been written to: {report_path}"), still inside the try
Main_PrintWritten ==
  /\ pc = "written"
  /\ calls' = Append(calls, "print written")
  /\ \E o \in StdoutFaults :
       IF o = "ok"
       THEN /\ stdout' = print_to(stdout, <<NL, Tok("Report has been written to: ")>>
                                          \o report_path)
            /\ pc' = "exit"
            /\ exit_code' = 0
            /\ exit_via' = "return"
            /\ UNCHANGED <<raised, stderr>>
       ELSE /\ Raise("print written", o, Str("<diagnostic>"))
            /\ UNCHANGED stdout
  /\ UNCHANGED <<path, file, detected, encoding_check, format_check, results, report,
                 report_path, report_file, opened>>

Blank(p) ==
  /\ pc = p
  /\ detected = "not run"
  /\ encoding_check = NoEncodingCheck
  /\ format_check = NoFormatCheck
  /\ results = "None"
  /\ report = <<>>
  /\ report_path = <<>>
  /\ report_file = NoReportFile
  /\ stdout = <<>>
  /\ stderr = <<>>
  /\ exit_code = -1
  /\ calls = <<>>
  /\ opened = FALSE
  /\ raised = NoRaise
  /\ exit_via = "running"

Init ==
  /\ Blank("validate")
  /\ path \in Paths
  /\ file \in IF path.exists THEN Files ELSE {AbsentFile}

Next ==
  \/ Main_ValidatePath
  \/ Main_CheckEncoding
  \/ Main_CheckFormat
  \/ Main_Analyze
  \/ Main_FormatReport
  \/ Main_PrintReport
  \/ Main_WriteReport
  \/ Main_PrintWritten

Spec == Init /\ [][Next]_vars

\* ------------------------------------- check_csv_format called on any file
Call_check_csv_format ==
  /\ pc = "call"
  /\ format_check' = check_csv_format(file)
  /\ opened' = TRUE
  /\ calls' = Append(calls, "check_csv_format")
  /\ pc' = "returned"
  /\ UNCHANGED <<path, file, detected, encoding_check, results, report, report_path,
                 report_file, stdout, stderr, exit_code, raised, exit_via>>

InitFormat ==
  /\ Blank("call")
  /\ path = [exists |-> TRUE, suffix |-> ".csv"]
  /\ file \in Files

NextFormat == Call_check_csv_format

SpecFormat == InitFormat /\ [][NextFormat]_vars

\* ================================================================== claims
CsvSuffixes == {".csv", ".CSV", ".Csv"}
Utf8Names == {"utf-8", "UTF-8", "Utf-8"}
HeaderRead(f) == f.rows # <<>> /\ f.rows[1] # <<>>
\* the reader or the file raised while check_csv_format was reading
FaultHit(f) == f.rows = <<>> \/ (f.rows[1] # <<>> /\ f.fault # "none")
HasSub(s, t) == \E k \in 0..(Len(s) - Len(t)) : SubSeq(s, k + 1, k + Len(t)) = t
ScenarioB == <<Row(2), Row(2), Row(1)>>
Mismatches == format_check.details.mismatched_rows
FaultPrefixes == {Tok("CSV format error: "), Tok("Error reading CSV: ")}
MismatchHeading == Tok("Column count mismatch found in the following rows:")

\* C1: for a file whose header has at least one field and that is read without
\* a fault, check_csv_format returns valid iff every data row has as many
\* fields as the header; mismatched_rows holds exactly one entry per differing
\* row and none for a matching row, in ascending row_number order, row_number
\* counting the header as 1, expected the header's field count and actual the
\* row's.  Scenario B (a,b / 1,2 / 3) gives the single entry (3, 2, 1).
C1_MismatchListExact ==
  (pc = "returned" /\ HeaderRead(file) /\ file.fault = "none") =>
    LET hdr == Len(file.rows[1])
        differing == {i \in 2..Len(file.rows) : Len(file.rows[i]) # hdr}
        ms == Mismatches
    IN /\ format_check.is_valid <=> (differing = {})
       /\ Len(ms) = Cardinality(differing)
       /\ {ms[k].row_number : k \in 1..Len(ms)} = differing
       /\ \A k \in 1..Len(ms) :
            /\ ms[k].expected_columns = hdr
            /\ ms[k].actual_columns = Len(file.rows[ms[k].row_number])
       /\ \A j, k \in 1..Len(ms) : j < k => ms[j].row_number < ms[k].row_number
       /\ file.rows = ScenarioB =>
            /\ ~format_check.is_valid
            /\ ms = <<[row_number |-> 3, expected_columns |-> 2, actual_columns |-> 1]>>

C1_Witness ==
  /\ pc = "returned"
  /\ file = [rows |-> ScenarioB, fault |-> "none"]
  /\ Len(Mismatches) = 1

\* C2 as claimed: every result check_csv_format returns, the fault returns
\* included, has is_valid true iff mismatched_rows is empty and
\* header_columns > 0.
C2_ValidIffNoMismatchAndHeader ==
  pc = "returned" =>
    (format_check.is_valid <=>
       (Mismatches = <<>> /\ format_check.details.header_columns > 0))

\* C2 amended: every result check_csv_format returns has is_valid true iff
\* mismatched_rows is empty, header_columns > 0 and the result does not report
\* a parser or I/O fault (its message is neither "CSV format error: ..." nor
\* "Error reading CSV: ...").
C2_ValidIffNoMismatchHeaderAndNoFault ==
  pc = "returned" =>
    (format_check.is_valid <=>
       /\ Mismatches = <<>>
       /\ format_check.details.header_columns > 0
       /\ format_check.message[1] \notin FaultPrefixes)

C2_Witness ==
  /\ pc = "returned"
  /\ file.fault = "csv"
  /\ Len(file.rows) > 1
  /\ format_check.details.header_columns > 0
  /\ Mismatches = <<>>
  /\ ~format_check.is_valid

\* C3: main runs its steps in the order path validation, encoding check,
\* format check, analysis, report formatting, (printing,) report writing; a
\* step runs only if every earlier step succeeded, so analyze_csv,
\* format_report and write_report_to_file run only after a valid format check,
\* a step that raised is the last one, and for a header with zero fields the
\* format check returns invalid with "Empty CSV file" and analyze_csv never
\* runs.
C3_StepOrder ==
  /\ Len(calls) <= Len(Order)
  /\ calls = SubSeq(Order, 1, Len(calls))
  /\ Len(calls) >= 2 => path.exists /\ path.suffix \in CsvSuffixes
  /\ Len(calls) >= 3 => detected \in Utf8Names
  /\ Len(calls) >= 4 => format_check.is_valid /\ Mismatches = <<>> /\ file.fault = "none"
  /\ Len(calls) >= 5 => results # "None"
  /\ Len(calls) >= 6 => report # <<>>
  /\ Len(calls) >= 7 => stdout # <<>>
  /\ Len(calls) >= 8 => report_file.content = report
  /\ raised # NoRaise => pc = "exit" /\ calls[Len(calls)] = raised.step
  /\ exit_code # -1 => pc = "exit"
  /\ (Len(calls) >= 3 /\ file.rows # <<>> /\ file.rows[1] = <<>>) =>
       /\ ~format_check.is_valid
       /\ format_check.message = Str("Empty CSV file")
       /\ calls[Len(calls)] = "check_csv_format"
       /\ results = "None"
       /\ pc = "exit"

C3_Witness ==
  /\ pc = "exit"
  /\ Len(file.rows) > 1
  /\ file.rows[1] = <<>>
  /\ format_check.message = Str("Empty CSV file")
  /\ Len(calls) = 3

\* C4: every run of main ends with exit code 0 or 1; it is 1 when the path is
\* missing or has the wrong extension, the encoding is not UTF-8, the format is
\* invalid or a step raised, and 0 otherwise; and in every run that ends with
\* exit code 1 no report file has been written.
C4_ExitCodeAndNoReportOnFailure ==
  /\ exit_code \in {-1, 0, 1}
  /\ pc = "exit" <=> exit_code \in {0, 1}
  /\ pc = "exit" =>
       (exit_code = 1 <=>
          \/ ~path.exists
          \/ path.suffix \notin CsvSuffixes
          \/ detected \notin Utf8Names
          \/ ~format_check.is_valid
          \/ raised # NoRaise)
  /\ exit_code = 1 => report_file = NoReportFile

\* C5: when every check passed and writing the report file fails,
\* write_report_to_file prints a warning to standard error and returns no path
\* instead of raising; the run ends with exit code 0, the whole report was
\* printed to standard output before the write, and the "Report has been
\* written to" line is not printed.
C5_WriteFailureIsAWarning ==
  (Len(calls) >= 7 /\ report_file.content # report) =>
    /\ pc = "exit"
    /\ exit_code = 0
    /\ raised = NoRaise
    /\ report_path = <<>>
    /\ calls[Len(calls)] = "write_report_to_file"
    /\ stderr = <<Tok("Warning: Could not write report to file: "), Tok("<os error>"), NL>>
    /\ stdout = report \o <<NL>>
    /\ ~Contains(stdout, Tok("Report has been written to: "))

C5_Witness ==
  /\ pc = "exit"
  /\ Len(calls) = 7
  /\ report # <<>>
  /\ report_file = [created |-> TRUE, content |-> <<>>]
  /\ exit_code = 0

\* C6: validate_file_path fails with the not-found error for every path that
\* does not exist, whatever its extension, and with the invalid-extension error
\* for every existing path whose extension is not .csv in any letter case; in
\* both cases no step of the run opens the file; a path is returned only if it
\* exists and has a .csv extension.
C6_PathValidation ==
  Len(calls) >= 1 =>
    /\ ~path.exists =>
         /\ raised = [step |-> "validate_file_path", exc |-> "FileNotFoundError"]
         /\ ~opened
         /\ Len(calls) = 1
         /\ pc = "exit"
    /\ (path.exists /\ path.suffix \notin CsvSuffixes) =>
         /\ raised = [step |-> "validate_file_path", exc |-> "ValueError"]
         /\ ~opened
         /\ Len(calls) = 1
         /\ pc = "exit"
    /\ (path.exists /\ path.suffix \in CsvSuffixes) =>
         raised.step # "validate_file_path"

C6_Witness ==
  /\ pc = "exit"
  /\ ~path.exists
  /\ path.suffix = ".txt"
  /\ raised.exc = "FileNotFoundError"
  /\ ~opened

\* C7: check_file_encoding succeeds only if the detected encoding name is
\* "utf-8" in any letter case; for every other outcome of the detector (another
\* name, no encoding, an exception, an unreadable file) it returns a failure
\* value instead of raising, and main stops with exit code 1 before the format
\* check and without a report file.
C7_EncodingGate ==
  Len(calls) >= 2 =>
    /\ encoding_check.ok <=> detected \in Utf8Names
    /\ raised.step # "check_file_encoding"
    /\ ~encoding_check.ok =>
         /\ encoding_check.msg # <<>>
         /\ raised = NoRaise
         /\ pc = "exit"
         /\ exit_code = 1
         /\ Len(calls) = 2
         /\ format_check = NoFormatCheck
         /\ report_file = NoReportFile

C7_Witness ==
  /\ pc = "exit"
  /\ detected = "ISO-8859-1"
  /\ exit_code = 1
  /\ encoding_check.msg = <<Tok("File is "), Tok("ISO-8859-1"), Tok(" encoded, not UTF-8")>>

\* C8 as claimed: on every failing run the text written to standard error is
\* exactly one line, also when the format check failed with mismatched rows.
C8_StderrIsOneLine ==
  (pc = "exit" /\ exit_code = 1) => LineCount(stderr) = 1

\* C8 amended: on every failing run the text written to standard error is
\* exactly one line, except when the format check failed with mismatched rows
\* (and no fault): then it is the heading line followed by one line per
\* mismatched row, 1 + the number of mismatched rows.  (A file path or a
\* library diagnostic is taken to be free of line breaks.)
C8_StderrLines ==
  (pc = "exit" /\ exit_code = 1) =>
    LineCount(stderr) =
      IF exit_via = "sys.exit 266" /\ HeaderRead(file) /\ file.fault = "none"
      THEN 1 + Cardinality({i \in 2..Len(file.rows) :
                              Len(file.rows[i]) # Len(file.rows[1])})
      ELSE 1

C8_Witness ==
  /\ pc = "exit"
  /\ exit_code = 1
  /\ Len(Mismatches) = 2
  /\ file.fault = "none"
  /\ LineCount(stderr) = 3

\* C9 as claimed: a row with too many or too few columns is an invalid result
\* carrying mismatch entries and never an exception, whereas a parser or I/O
\* fault leaves check_csv_format as an exception (CsvParseError, ReadError), is
\* no format-invalid result and is not reported by main as one.
C9_FaultIsAnException ==
  Len(calls) >= 3 =>
    /\ (HeaderRead(file) /\ file.fault = "none" /\ ~format_check.is_valid) =>
         /\ raised = NoRaise
         /\ Mismatches # <<>>
    /\ FaultHit(file) =>
         /\ raised.step = "check_csv_format"
         /\ exit_via # "sys.exit 266"

\* C9 amended: a row with too many or too few columns is an invalid result
\* carrying mismatch entries, never an exception; a parser fault and any other
\* read fault are invalid results too, returned and not raised, told apart from
\* a column mismatch only by the message, which begins "CSV format error: " for
\* a parser fault and "Error reading CSV: " for any other fault, against the
\* mismatch heading; main reports all three through its format-invalid branch
\* with exit code 1.
C9_FaultIsAnInvalidResult ==
  Len(calls) >= 3 =>
    /\ (HeaderRead(file) /\ file.fault = "none" /\ ~format_check.is_valid) =>
         /\ raised = NoRaise
         /\ Mismatches # <<>>
         /\ format_check.message[1] = MismatchHeading
         /\ exit_via = "sys.exit 266"
    /\ FaultHit(file) =>
         /\ raised = NoRaise
         /\ ~format_check.is_valid
         /\ format_check.message[1] =
              IF file.fault = "csv" THEN Tok("CSV format error: ")
              ELSE Tok("Error reading CSV: ")
         /\ exit_via = "sys.exit 266"
         /\ exit_code = 1
         /\ stderr = <<Tok("Error: ")>> \o format_check.message \o <<NL>>

C9_Witness ==
  /\ pc = "exit"
  /\ file.fault = "csv"
  /\ Mismatches # <<>>
  /\ format_check.message[1] = Tok("CSV format error: ")
  /\ exit_via = "sys.exit 266"

\* C10: every report main produces has the "Column Alignment Details" block
\* with the header column count K and never the "Multiple column counts"
\* warning; with at least one data row the block says "All data rows have K
\* columns", with none the header line is all the block holds.
C10_AlignmentBlock ==
  report # <<>> =>
    LET K == Len(file.rows[1]) IN
      /\ HasSub(report, <<NL, NL, Tok("Column Alignment Details"), NL>>)
      /\ HasSub(report, <<Tok("Header columns: "), Num(K), NL>>)
      /\ ~Contains(report, Tok("Warning: Multiple column counts found in data rows"))
      /\ ~Contains(report, Tok("Column counts found: "))
      /\ Len(file.rows) > 1 =>
           HasSub(report, <<Tok("Header columns: "), Num(K), NL,
                            Tok("All data rows have "), Num(K), Tok(" columns"), NL,
                            NL, Tok("Basic Statistics")>>)
      /\ Len(file.rows) = 1 =>
           HasSub(report, <<Tok("Header columns: "), Num(K), NL,
                            NL, Tok("Basic Statistics")>>)

C10_Witness ==
  /\ report # <<>>
  /\ Len(file.rows) = 3
  /\ Len(file.rows[1]) = 2
  /\ Contains(report, Tok("All data rows have "))

====
